---- MODULE Spec2Model ----
(***************************************************************************)
(* RatingsHelper (src/src/scripts/clipperUI/ratingsHelper.ts): the         *)
(* decision whether to show the ratings prompt, its three delay predicates *)
(* and the recording of a bad rating.                                      *)
(*                                                                         *)
(* Strings are sequences of one-character strings, so that parseInt,       *)
(* split and toLowerCase are computed as JavaScript computes them.  A      *)
(* value that may be null is a record [isNull, chars]; a JavaScript number *)
(* is a record [kind, v] with kind "num", "nan" or "undef".                *)
(***************************************************************************)
EXTENDS Integers, Sequences, FiniteSets, TLC

\* recordedBadRating is a history variable: the date string the last
\* setLastBadRating that wrote storage has put under lastBadRatingDate, null
\* while no call has written
VARIABLES storage, clipperState, last, recordedBadRating

vars == <<storage, clipperState, last, recordedBadRating>>

(***************************************************************************)
(* Values                                                                  *)
(***************************************************************************)

\* null, as Clipper.Storage.getCachedValue and Settings.getSetting give it back
Null == [isNull |-> TRUE, chars |-> <<>>]

Str(cs) == [isNull |-> FALSE, chars |-> cs]

\* Utils.isNullOrUndefined
isNullOrUndefined(x) == x.isNull

NaN == [kind |-> "nan", v |-> 0]

\* the value of a function that falls off its end without a return
Undefined == [kind |-> "undef", v |-> 0]

Num(n) == [kind |-> "num", v |-> n]

\* the global isNaN: ToNumber(undefined) is NaN
isNaN(x) == x.kind # "num"

\* a >= b on numbers: false as soon as one side is NaN
Geq(a, b) == a.kind = "num" /\ b.kind = "num" /\ a.v >= b.v

Leq(a, b) == a.kind = "num" /\ b.kind = "num" /\ a.v <= b.v

Gt(a, b) == a.kind = "num" /\ b.kind = "num" /\ a.v > b.v

\* a === b: NaN equals nothing, undefined equals undefined
StrictEq(a, b) ==
    \/ a.kind = "num" /\ b.kind = "num" /\ a.v = b.v
    \/ a.kind = "undef" /\ b.kind = "undef"

(***************************************************************************)
(* Constants.Settings and Constants.StorageKeys (src/scripts/constants is  *)
(* not among the source files; the values are the configured constants the *)
(* specification names, with the time values scaled down to small numbers) *)
(***************************************************************************)

maximumJSTimeValue == 100

minTimeBetweenBadRatings == 10

minClipSuccessForRatingsPrompt == 3

maxClipSuccessForRatingsPrompt == 10

ratingsPromptStorageKeys ==
    <<"doNotPromptRatings", "lastBadRatingDate", "lastBadRatingVersion",
      "lastSeenVersion", "numSuccessfulClips">>

StorageKeys == {ratingsPromptStorageKeys[i] : i \in 1..Len(ratingsPromptStorageKeys)}

(***************************************************************************)
(* String functions of the JavaScript runtime                              *)
(***************************************************************************)

Digits == <<"0", "1", "2", "3", "4", "5", "6", "7", "8", "9">>

IsDigit(c) == \E i \in 1..10 : Digits[i] = c

DigitVal(c) == (CHOOSE i \in 1..10 : Digits[i] = c) - 1

IsWhiteSpace(c) == c \in {" ", "\t", "\n"}

UpperCase == <<"A", "B", "C", "D", "E", "F", "G", "H", "I", "J", "K", "L", "M",
               "N", "O", "P", "Q", "R", "S", "T", "U", "V", "W", "X", "Y", "Z">>

LowerCase == <<"a", "b", "c", "d", "e", "f", "g", "h", "i", "j", "k", "l", "m",
               "n", "o", "p", "q", "r", "s", "t", "u", "v", "w", "x", "y", "z">>

LowerChar(c) ==
    IF \E i \in 1..26 : UpperCase[i] = c
    THEN LowerCase[CHOOSE i \in 1..26 : UpperCase[i] = c]
    ELSE c

\* String.prototype.toLowerCase
toLowerCase(cs) == [i \in 1..Len(cs) |-> LowerChar(cs[i])]

RECURSIVE TrimStart(_)
TrimStart(cs) ==
    IF cs # <<>> /\ IsWhiteSpace(Head(cs)) THEN TrimStart(Tail(cs)) ELSE cs

\* the value of the longest prefix of digits of cs, read left to right from acc
RECURSIVE DigitPrefixValue(_, _)
DigitPrefixValue(cs, acc) ==
    IF cs # <<>> /\ IsDigit(Head(cs))
    THEN DigitPrefixValue(Tail(cs), 10 * acc + DigitVal(Head(cs)))
    ELSE acc

\* parseInt(x, 10): ToString(null) and ToString(undefined) start with no digit;
\* leading white space is skipped, one sign is read, then the digits up to the
\* first character that is none; NaN when there is no digit
parseInt(x) ==
    IF x.isNull THEN NaN
    ELSE LET t == TrimStart(x.chars)
             neg == t # <<>> /\ Head(t) = "-"
             body == IF t # <<>> /\ Head(t) \in {"-", "+"} THEN Tail(t) ELSE t
         IN  IF body = <<>> \/ ~IsDigit(Head(body)) THEN NaN
             ELSE Num((IF neg THEN -1 ELSE 1) * DigitPrefixValue(body, 0))

\* String.prototype.split("."): the pieces between the dots, empty ones kept
RECURSIVE SplitFrom(_, _)
SplitFrom(cs, cur) ==
    IF cs = <<>> THEN <<cur>>
    ELSE IF Head(cs) = "." THEN <<cur>> \o SplitFrom(Tail(cs), <<>>)
    ELSE SplitFrom(Tail(cs), Append(cur, Head(cs)))

split(cs) == SplitFrom(cs, <<>>)

\* versionSplit[i] given to parseInt: an index past the end is undefined
Segment(versionSplit, i) ==
    IF i <= Len(versionSplit) THEN Str(versionSplit[i]) ELSE Null

(***************************************************************************)
(* RatingsHelper: validation and the three delay predicates                *)
(***************************************************************************)

\* a slip: the two limits themselves are refused
isValidDateExclusive(date) ==
    LET minimumTimeValue == Num(maximumJSTimeValue * (-1))
    IN  Gt(date, minimumTimeValue) /\ Gt(Num(maximumJSTimeValue), date)

isValidDate(date) ==
    LET minimumTimeValue == Num(maximumJSTimeValue * (-1))
    IN  Geq(date, minimumTimeValue) /\ Leq(date, Num(maximumJSTimeValue))

\* a slip: only the major and the minor version are looked at
versionHasMajorAndMinor(version) ==
    IF ~isNullOrUndefined(version)
    THEN LET versionSplit == split(version.chars)
         IN  ~(\/ isNaN(parseInt(Segment(versionSplit, 1)))
               \/ isNaN(parseInt(Segment(versionSplit, 2))))
    ELSE FALSE

versionHasCorrectFormat(version) ==
    IF ~isNullOrUndefined(version)
    THEN LET versionSplit == split(version.chars)
         IN  IF \/ Len(versionSplit) # 3
                \/ isNaN(parseInt(Segment(versionSplit, 1)))
                \/ isNaN(parseInt(Segment(versionSplit, 2)))
                \/ isNaN(parseInt(Segment(versionSplit, 3)))
             THEN FALSE
             ELSE TRUE
    ELSE FALSE

getMajorVersion(versionNum) ==
    IF ~isNullOrUndefined(versionNum)
    THEN parseInt(Segment(split(versionNum.chars), 1))
    ELSE Undefined

\* a slip: the patch is taken for the minor version
getPatchVersion(versionNum) ==
    IF ~isNullOrUndefined(versionNum)
    THEN parseInt(Segment(split(versionNum.chars), 3))
    ELSE Undefined

getMinorVersion(versionNum) ==
    IF ~isNullOrUndefined(versionNum)
    THEN parseInt(Segment(split(versionNum.chars), 2))
    ELSE Undefined

\* a slip: any later comparison date will do, the interval is not asked for
badRatingDateIsInThePast(badRatingDate, comparisonDate) ==
    IF isNaN(badRatingDate) THEN TRUE
    ELSE IF ~isValidDate(badRatingDate) \/ ~isValidDate(comparisonDate) THEN FALSE
    ELSE comparisonDate.v - badRatingDate.v >= 0

badRatingTimingDelayIsOver(badRatingDate, comparisonDate) ==
    IF isNaN(badRatingDate) THEN TRUE
    ELSE IF ~isValidDate(badRatingDate) \/ ~isValidDate(comparisonDate) THEN FALSE
    ELSE comparisonDate.v - badRatingDate.v >= minTimeBetweenBadRatings

badRatingVersionDelayIsOver(badRatingVersion, lastSeenVersion) ==
    IF isNullOrUndefined(badRatingVersion) THEN TRUE
    ELSE IF \/ ~versionHasCorrectFormat(lastSeenVersion)
            \/ ~versionHasCorrectFormat(badRatingVersion)
    THEN FALSE
    ELSE LET lastSeenMajor == getMajorVersion(lastSeenVersion)
             badRatingMajor == getMajorVersion(badRatingVersion)
             lastSeenMinor == getMinorVersion(lastSeenVersion)
             badRatingMinor == getMinorVersion(badRatingVersion)
         IN  IF Gt(lastSeenMajor, badRatingMajor) THEN TRUE
             ELSE IF StrictEq(lastSeenMajor, badRatingMajor)
                     /\ Gt(lastSeenMinor, badRatingMinor)
             THEN TRUE
             ELSE FALSE

\* a slip: the upper limit itself is refused
clipSuccessDelayIsOverExclusive(numClips) ==
    IF isNaN(numClips) THEN FALSE
    ELSE /\ Geq(numClips, Num(minClipSuccessForRatingsPrompt))
         /\ Gt(Num(maxClipSuccessForRatingsPrompt), numClips)

clipSuccessDelayIsOver(numClips) ==
    IF isNaN(numClips) THEN FALSE
    ELSE /\ Geq(numClips, Num(minClipSuccessForRatingsPrompt))
         /\ Leq(numClips, Num(maxClipSuccessForRatingsPrompt))

(***************************************************************************)
(* Settings, ClientType and ClipperState (collaborators of RatingsHelper)  *)
(***************************************************************************)

ratingsPromptEnabledSettingNameSuffix == "_RatingsEnabled"

\* ClientType[clientType]: the names of the client types a session may have
ClientTypes == {"ChromeExtension", "EdgeExtension", "FirefoxExtension"}

\* the settings file: the prompt is enabled for one client (written in mixed
\* case), disabled for another, and a third has no such setting
SettingsFile ==
    [n \in {"ChromeExtension_RatingsEnabled", "EdgeExtension_RatingsEnabled"} |->
        IF n = "ChromeExtension_RatingsEnabled"
        THEN <<"T", "r", "u", "e">>
        ELSE <<"f", "a", "l", "s", "e">>]

\* Settings.getSetting
getSetting(settingName) ==
    IF settingName \in DOMAIN SettingsFile THEN Str(SettingsFile[settingName]) ELSE Null

combineClientTypeAndSuffix(clientType, suffix) == clientType \o suffix

getRatingsPromptEnabledSettingNameForClient(clientType) ==
    combineClientTypeAndSuffix(clientType, ratingsPromptEnabledSettingNameSuffix)

\* a slip: a client type without the setting counts as enabled
ratingsPromptEnabledByDefault(clientType) ==
    LET settingName == getRatingsPromptEnabledSettingNameForClient(clientType)
        isEnabledAsStr == getSetting(settingName)
    IN  \/ isNullOrUndefined(isEnabledAsStr)
        \/ toLowerCase(isEnabledAsStr.chars) = <<"t", "r", "u", "e">>

ratingsPromptEnabledForClient(clientType) ==
    LET settingName == getRatingsPromptEnabledSettingNameForClient(clientType)
        isEnabledAsStr == getSetting(settingName)
    IN  /\ ~isNullOrUndefined(isEnabledAsStr)
        /\ toLowerCase(isEnabledAsStr.chars) = <<"t", "r", "u", "e">>

\* clipperState.showRatingsPrompt.get(): undefined until some caller has set it
Unset == [isNull |-> TRUE, value |-> FALSE]

Cached(b) == [isNull |-> FALSE, value |-> b]

\* a ClipperState the caller passes, or null
NullClipperState == [isNull |-> TRUE, showRatingsPrompt |-> Unset, clipperType |-> "none"]

ClipperStates ==
    {NullClipperState} \cup
    { [isNull |-> FALSE, showRatingsPrompt |-> c, clipperType |-> t] :
        c \in {Unset, Cached(TRUE), Cached(FALSE)}, t \in ClientTypes }

(***************************************************************************)
(* Clipper.Storage                                                         *)
(***************************************************************************)

\* Clipper.Storage.getCachedValue
getCachedValue(store, key) == store[key]

\* Clipper.Storage.setValue, one write after the other
RECURSIVE setValues(_, _)
setValues(store, writes) ==
    IF writes = <<>> THEN store
    ELSE setValues([store EXCEPT ![Head(writes)[1]] = Head(writes)[2]], Tail(writes))

(***************************************************************************)
(* RatingsHelper.shouldShowRatingsPrompt                                   *)
(***************************************************************************)

\* a slip: the cached decision is tested for truth, not for being set
hasTruthyCachedValue(cs) ==
    ~isNullOrUndefined(cs.showRatingsPrompt) /\ cs.showRatingsPrompt.value

\* line 227: the clipper state already holds a decision
hasCachedValue(cs) == ~isNullOrUndefined(cs.showRatingsPrompt)

\* a slip: the flag is compared without toLowerCase
doNotPromptIsSetCaseSensitive(doNotPromptRatingsStr) ==
    /\ ~isNullOrUndefined(doNotPromptRatingsStr)
    /\ doNotPromptRatingsStr.chars = <<"t", "r", "u", "e">>

\* line 245: the stored flag says never to prompt
doNotPromptIsSet(doNotPromptRatingsStr) ==
    /\ ~isNullOrUndefined(doNotPromptRatingsStr)
    /\ toLowerCase(doNotPromptRatingsStr.chars) = <<"t", "r", "u", "e">>

\* lines 239-243: the five reads, in the order the code makes them
ratingsPromptReads == ratingsPromptStorageKeys

\* a slip: the version delay is left out of the conjunction
timingAndClipDelaysAreOver(timing, version, clips) == timing /\ clips

\* lines 269-273
allDelaysAreOver(timing, version, clips) == timing /\ version /\ clips

\* the value returned, the storage keys read, the event's status and the
\* logging info filled in on the way
shouldShowRatingsPromptInternal(cs, store, now) ==
    IF isNullOrUndefined(cs)
    THEN [result |-> FALSE, reads |-> <<>>, status |-> "Failed",
          info |-> <<>>]
    ELSE IF hasCachedValue(cs)
    THEN [result |-> cs.showRatingsPrompt.value, reads |-> <<>>, status |-> "Succeeded",
          info |-> [usedCachedValue |-> TRUE]]
    ELSE LET ratingsPromptEnabled == ratingsPromptEnabledForClient(cs.clipperType)
         IN
    IF ~ratingsPromptEnabled
    THEN [result |-> FALSE, reads |-> <<>>, status |-> "Succeeded",
          info |-> [ratingsPromptEnabledForClient |-> FALSE]]
    ELSE LET doNotPromptRatingsStr == getCachedValue(store, "doNotPromptRatings")
             lastBadRatingDateAsStr == getCachedValue(store, "lastBadRatingDate")
             lastBadRatingVersion == getCachedValue(store, "lastBadRatingVersion")
             lastSeenVersion == getCachedValue(store, "lastSeenVersion")
             numClipsAsStr == getCachedValue(store, "numSuccessfulClips")
         IN
    IF doNotPromptIsSet(doNotPromptRatingsStr)
    THEN [result |-> FALSE, reads |-> ratingsPromptReads, status |-> "Succeeded",
          info |-> [ratingsPromptEnabledForClient |-> TRUE, doNotPromptRatings |-> TRUE]]
    ELSE LET lastBadRatingDate == parseInt(lastBadRatingDateAsStr)
             numClips == parseInt(numClipsAsStr)
             timing == badRatingTimingDelayIsOver(lastBadRatingDate, Num(now))
             version == badRatingVersionDelayIsOver(lastBadRatingVersion, lastSeenVersion)
             clips == clipSuccessDelayIsOver(numClips)
         IN  [result |-> allDelaysAreOver(timing, version, clips),
              reads |-> ratingsPromptReads, status |-> "Succeeded",
              info |-> [ratingsPromptEnabledForClient |-> TRUE,
                        lastBadRatingDate |->
                            \* the date is logged as new Date(...).toString(), here as its number
                            IF lastBadRatingDate.kind = "num" /\ lastBadRatingDate.v # 0
                            THEN lastBadRatingDate ELSE Null,
                        lastBadRatingVersion |-> lastBadRatingVersion,
                        lastSeenVersion |-> lastSeenVersion,
                        numSuccessfulClips |-> numClips,
                        badRatingTimingDelayIsOver |-> timing,
                        badRatingVersionDelayIsOver |-> version,
                        clipSuccessDelayIsOver |-> clips]]

(***************************************************************************)
(* RatingsHelper.setLastBadRating                                          *)
(***************************************************************************)

\* a slip: any stored number counts, valid date or not
badRatingDateIsNumber(lastBadRatingDate) == ~isNaN(lastBadRatingDate)

\* line 98: the stored date shows that a bad rating was given before
badRatingAlreadyOccurred(lastBadRatingDate) ==
    ~isNaN(lastBadRatingDate) /\ isValidDate(lastBadRatingDate)

\* lines 102-103: the two writes
lastBadRatingWrites(badRatingDateToSetAsStr, badRatingVersionToSet) ==
    << <<"lastBadRatingDate", badRatingDateToSetAsStr>>,
       <<"lastBadRatingVersion", badRatingVersionToSet>> >>

\* the value returned, the storage keys read and the writes made
setLastBadRating(store, badRatingDateToSetAsStr, badRatingVersionToSet) ==
    LET badRatingDateToSet == parseInt(badRatingDateToSetAsStr)
    IN
    IF ~isValidDate(badRatingDateToSet)
    THEN [result |-> TRUE, reads |-> <<>>, writes |-> <<>>]
    ELSE IF ~versionHasCorrectFormat(badRatingVersionToSet)
    THEN [result |-> TRUE, reads |-> <<>>, writes |-> <<>>]
    ELSE LET lastBadRatingDateAsStr == getCachedValue(store, "lastBadRatingDate")
             lastBadRatingDate == parseInt(lastBadRatingDateAsStr)
         IN  [result |-> badRatingAlreadyOccurred(lastBadRatingDate),
              reads |-> <<"lastBadRatingDate">>,
              writes |-> lastBadRatingWrites(badRatingDateToSetAsStr, badRatingVersionToSet)]

(***************************************************************************)
(* Inputs                                                                  *)
(***************************************************************************)

\* how far past a limit the numbers given to the delay predicates go
DateSlack == 2

ClipSlack == 2

\* the largest segment of the version strings given to the version predicate
MaxSegment == 2

RECURSIVE NatToChars(_)
NatToChars(n) ==
    IF n < 10 THEN <<Digits[n + 1]>>
    ELSE NatToChars(n \div 10) \o <<Digits[(n % 10) + 1]>>

\* the decimal string of an integer, as stored for dates and clip counts
ToDecimal(n) == IF n < 0 THEN <<"-">> \o NatToChars(-n) ELSE NatToChars(n)

\* "X.Y.Z"
VersionChars(major, minor, patch) ==
    ToDecimal(major) \o <<".">> \o ToDecimal(minor) \o <<".">> \o ToDecimal(patch)

NotANumber == <<"n", "o", "t", "-", "a", "-", "n", "u", "m", "b", "e", "r">>

\* the date strings given to setLastBadRating: one that is no number, a
\* valid date, one past maximumJSTimeValue
DateStrings ==
    {Str(NotANumber), Str(ToDecimal(12)), Str(ToDecimal(maximumJSTimeValue + 1))}

\* the dates storage may hold from earlier sessions
StoredDateStrings ==
    {Str(NotANumber), Str(ToDecimal(5)), Str(ToDecimal(maximumJSTimeValue + 1))}

\* the version strings given to setLastBadRating and found in storage under
\* lastBadRatingVersion: "1.2.0" and the malformed "1.0"
BadRatingVersionStrings == {Str(VersionChars(1, 2, 0)), Str(<<"1", ".", "0">>)}

\* "1.2.9" (a patch ahead of "1.2.0") and "1.3.0" (a minor version ahead)
LastSeenVersionStrings == {Str(VersionChars(1, 2, 9)), Str(VersionChars(1, 3, 0))}

\* below the window and inside it
NumClipsStrings ==
    {Str(ToDecimal(minClipSuccessForRatingsPrompt - 1)),
     Str(ToDecimal(minClipSuccessForRatingsPrompt + 2))}

DoNotPromptStrings == {Str(<<"T", "r", "u", "e">>), Str(<<"f", "a", "l", "s", "e">>)}

\* what storage may hold from earlier sessions
StoredValues ==
    [doNotPromptRatings |-> {Null} \cup DoNotPromptStrings,
     lastBadRatingDate |-> {Null} \cup StoredDateStrings,
     lastBadRatingVersion |-> {Null} \cup BadRatingVersionStrings,
     lastSeenVersion |-> {Null} \cup LastSeenVersionStrings,
     numSuccessfulClips |-> {Null} \cup NumClipsStrings]

\* Date.now(): with a stored date of 5 the difference is just below and at
\* minTimeBetweenBadRatings; with a date of 12 set by setLastBadRating it is
\* below for the first two and at minTimeBetweenBadRatings for the third
NowValues == {minTimeBetweenBadRatings + 4, minTimeBetweenBadRatings + 5,
              minTimeBetweenBadRatings + 12}

(***************************************************************************)
(* The state and the operations                                            *)
(***************************************************************************)

NoCall == [op |-> "none", args |-> <<>>, result |-> "void", reads |-> <<>>,
           writes |-> <<>>, event |-> <<>>]

Init ==
    /\ storage \in [doNotPromptRatings : StoredValues.doNotPromptRatings,
                     lastBadRatingDate : StoredValues.lastBadRatingDate,
                     lastBadRatingVersion : StoredValues.lastBadRatingVersion,
                     lastSeenVersion : StoredValues.lastSeenVersion,
                     numSuccessfulClips : StoredValues.numSuccessfulClips]
    /\ clipperState \in ClipperStates
    /\ last = NoCall
    /\ recordedBadRating = Null

PreCacheNeededValues ==
    /\ last' = [op |-> "preCacheNeededValues", args |-> ratingsPromptStorageKeys,
                result |-> "void", reads |-> <<>>, writes |-> <<>>, event |-> <<>>]
    /\ UNCHANGED <<storage, clipperState, recordedBadRating>>

ShouldShowRatingsPrompt(now) ==
    LET r == shouldShowRatingsPromptInternal(clipperState, storage, now)
    IN  /\ last' = [op |-> "shouldShowRatingsPrompt",
                    args |-> [clipperState |-> clipperState, now |-> now],
                    result |-> r.result, reads |-> r.reads, writes |-> <<>>,
                    event |-> [label |-> "ShouldShowRatingsPrompt", status |-> r.status,
                               ShouldShowRatingsPrompt |-> r.result,
                               RatingsInfo |-> r.info]]
        /\ UNCHANGED <<storage, clipperState, recordedBadRating>>

SetLastBadRating(badRatingDateToSetAsStr, badRatingVersionToSet) ==
    LET r == setLastBadRating(storage, badRatingDateToSetAsStr, badRatingVersionToSet)
    IN  /\ storage' = setValues(storage, r.writes)
        /\ last' = [op |-> "setLastBadRating",
                    args |-> [date |-> badRatingDateToSetAsStr,
                              version |-> badRatingVersionToSet,
                              storageBefore |-> storage],
                    result |-> r.result, reads |-> r.reads, writes |-> r.writes,
                    event |-> <<>>]
        /\ recordedBadRating' =
              IF r.writes # <<>> THEN badRatingDateToSetAsStr ELSE recordedBadRating
        /\ UNCHANGED clipperState

SetDoNotPromptStatus ==
    /\ storage' = setValues(storage, << <<"doNotPromptRatings", Str(<<"t", "r", "u", "e">>)>> >>)
    /\ last' = [op |-> "setDoNotPromptStatus", args |-> <<>>, result |-> "void",
                reads |-> <<>>,
                writes |-> << <<"doNotPromptRatings", Str(<<"t", "r", "u", "e">>)>> >>,
                event |-> [label |-> "SetDoNotPromptRatings"]]
    /\ UNCHANGED <<clipperState, recordedBadRating>>

\* the rest of the client: it records the version last seen and counts the
\* successful clips
StorageSetValue(key, value) ==
    /\ storage[key] # value
    /\ storage' = setValues(storage, << <<key, value>> >>)
    /\ last' = [op |-> "setValue", args |-> <<key, value>>, result |-> "void",
                reads |-> <<>>, writes |-> << <<key, value>> >>, event |-> <<>>]
    /\ UNCHANGED <<clipperState, recordedBadRating>>

Next ==
    \/ PreCacheNeededValues
    \/ \E now \in NowValues : ShouldShowRatingsPrompt(now)
    \/ \E d \in DateStrings, v \in BadRatingVersionStrings : SetLastBadRating(d, v)
    \/ SetDoNotPromptStatus
    \/ \E v \in LastSeenVersionStrings : StorageSetValue("lastSeenVersion", v)
    \/ \E n \in NumClipsStrings : StorageSetValue("numSuccessfulClips", n)

Spec == Init /\ [][Next]_vars

(***************************************************************************)
(* What the claims speak of                                                *)
(***************************************************************************)

\* the last operation was shouldShowRatingsPrompt on a present clipper state
ShouldShowCalled ==
    last.op = "shouldShowRatingsPrompt" /\ ~last.args.clipperState.isNull

\* ... whose cached decision was unset when the call was made
CalledWithoutCachedValue ==
    ShouldShowCalled /\ last.args.clipperState.showRatingsPrompt = Unset

\* ... or was set
CalledWithCachedValue ==
    ShouldShowCalled /\ last.args.clipperState.showRatingsPrompt # Unset

\* the setting of the client type is "true" in some mix of cases
TrueStrings ==
    {Str(<<"t", "r", "u", "e">>), Str(<<"T", "r", "u", "e">>), Str(<<"T", "R", "U", "E">>)}

EnabledInSettings(clientType) ==
    getSetting(clientType \o "_RatingsEnabled") \in TrueStrings

\* the decimal forms of the dates within the validity bound
ValidDateStrings ==
    {Str(ToDecimal(n)) : n \in -maximumJSTimeValue..maximumJSTimeValue}

IsValidDateString(x) == x \in ValidDateStrings

\* the strings made of three integers with dots between them
ThreePartVersions ==
    {Str(VersionChars(a, b, c)) : a \in 0..9, b \in 0..9, c \in 0..9}

IsThreePartVersion(x) == x \in ThreePartVersions

\* the call went past the client setting and the do-not-prompt flag, to the
\* three delay predicates
DelaysEvaluated ==
    /\ CalledWithoutCachedValue
    /\ EnabledInSettings(last.args.clipperState.clipperType)
    /\ storage["doNotPromptRatings"] \notin TrueStrings

(***************************************************************************)
(* C1                                                                      *)
(***************************************************************************)

C2_DisabledClientReadsNothing ==
    (CalledWithoutCachedValue /\ ~EnabledInSettings(last.args.clipperState.clipperType))
        => last.result = FALSE /\ last.reads = <<>>

\* a client with no setting at all, and storage that would allow the prompt
C2_Witness ==
    /\ CalledWithoutCachedValue
    /\ last.args.clipperState.clipperType = "FirefoxExtension"
    /\ storage["doNotPromptRatings"] = Null
    /\ storage["lastBadRatingDate"] = Null
    /\ storage["lastBadRatingVersion"] = Null
    /\ clipSuccessDelayIsOver(parseInt(storage["numSuccessfulClips"]))
    /\ last.result = FALSE

(***************************************************************************)
(* C3                                                                      *)
(***************************************************************************)

\* C3: without a cached decision and with a stored doNotPromptRatings that
\* is "true" in any mix of cases, shouldShowRatingsPrompt returns false,
\* whatever the other stored values and the clock are.
C3_DoNotPromptReturnsFalse ==
    (CalledWithoutCachedValue /\ storage["doNotPromptRatings"] \in TrueStrings)
        => last.result = FALSE

\* "True" is stored, the client is enabled and all three delays are over
C3_Witness ==
    /\ CalledWithoutCachedValue
    /\ EnabledInSettings(last.args.clipperState.clipperType)
    /\ storage["doNotPromptRatings"] = Str(<<"T", "r", "u", "e">>)
    /\ storage["lastBadRatingDate"] = Null
    /\ storage["lastBadRatingVersion"] = Null
    /\ clipSuccessDelayIsOver(parseInt(storage["numSuccessfulClips"]))
    /\ last.result = FALSE

(***************************************************************************)
(* C4                                                                      *)
(***************************************************************************)

\* C4: without a cached decision, with the prompt enabled for the client and
\* the do-not-prompt flag not "true", shouldShowRatingsPrompt returns true
\* exactly when the timing delay, the version delay and the clip count delay
\* are all over for the stored values and the clock.
C4_TrueIffAllDelaysOver ==
    DelaysEvaluated =>
        (last.result = TRUE <=>
            /\ badRatingTimingDelayIsOver(parseInt(storage["lastBadRatingDate"]),
                                          Num(last.args.now))
            /\ badRatingVersionDelayIsOver(storage["lastBadRatingVersion"],
                                           storage["lastSeenVersion"])
            /\ clipSuccessDelayIsOver(parseInt(storage["numSuccessfulClips"])))

\* a bad rating was given at 5 for version 1.2.0; the clock is
\* minTimeBetweenBadRatings later, 1.3.0 was seen, the clip count is in the window
C4_Witness ==
    /\ DelaysEvaluated
    /\ storage["lastBadRatingDate"] = Str(ToDecimal(5))
    /\ last.args.now = 5 + minTimeBetweenBadRatings
    /\ storage["lastBadRatingVersion"] = Str(VersionChars(1, 2, 0))
    /\ storage["lastSeenVersion"] = Str(VersionChars(1, 3, 0))
    /\ storage["numSuccessfulClips"] = Str(ToDecimal(minClipSuccessForRatingsPrompt + 2))
    /\ last.result = TRUE

(***************************************************************************)
(* C5                                                                      *)
(***************************************************************************)

\* C5: in an evaluation that reaches the delay predicates, a stored
\* lastBadRatingDate that is present but is no valid date (no number, or past
\* the bound) makes the timing delay report "not over" and the decision false.
C5_UnparsableDateFailsClosed ==
    (/\ DelaysEvaluated
     /\ storage["lastBadRatingDate"] # Null
     /\ ~IsValidDateString(storage["lastBadRatingDate"]))
        => /\ last.event.RatingsInfo.badRatingTimingDelayIsOver = FALSE
           /\ last.result = FALSE

(***************************************************************************)
(* C6                                                                      *)
(***************************************************************************)

\* the last operation was setLastBadRating
SetLastBadRatingCalled == last.op = "setLastBadRating"

\* ... with a valid date and a well-formed version
CalledWithValidRating ==
    /\ SetLastBadRatingCalled
    /\ IsValidDateString(last.args.date)
    /\ IsThreePartVersion(last.args.version)

\* ... with a date that is no valid date, or a version that is not well formed
CalledWithInvalidRating == SetLastBadRatingCalled /\ ~CalledWithValidRating

DateNumbers ==
    {NaN} \cup {Num(n) : n \in -(maximumJSTimeValue + DateSlack)..(maximumJSTimeValue + DateSlack)}

\* the segments of the well-formed versions: small ones and one of two digits
Segments == 0..MaxSegment \cup {10}

\* the versions given, each with what it was built from: absent, three
\* integers with dots between them, or text that is no such thing
AbsentVersion == [version |-> Null, form |-> "absent", major |-> 0, minor |-> 0, patch |-> 0]

WellFormedVersions ==
    { [version |-> Str(VersionChars(a, b, c)), form |-> "X.Y.Z",
       major |-> a, minor |-> b, patch |-> c] : a \in Segments, b \in Segments, c \in Segments }

MalformedVersions ==
    { [version |-> Str(cs), form |-> "malformed", major |-> 0, minor |-> 0, patch |-> 0] :
        cs \in { <<"2", ".", "0">>, <<"1", ".", "x", ".", "0">>,
                 <<"1", ".", "2", ".", "3", ".", "4">>, <<"1", ".", ".", "0">>,
                 <<"x">>, <<>> } }

VersionInputs == {AbsentVersion} \cup WellFormedVersions \cup MalformedVersions

\* the stored clip counts given, each with what it was built from: absent,
\* the decimal string of an integer, or text that is no number
AbsentCount == [str |-> Null, form |-> "absent", n |-> 0]

IntegerCounts ==
    { [str |-> Str(ToDecimal(n)), form |-> "integer", n |-> n] :
        n \in -ClipSlack..(maxClipSuccessForRatingsPrompt + ClipSlack) }

TextCounts ==
    { [str |-> Str(cs), form |-> "text", n |-> 0] : cs \in { <<"a", "b", "c">>, <<>>, <<"-">> } }

CountInputs == {AbsentCount} \cup IntegerCounts \cup TextCounts

\* a call of one of the three predicates that is still to be made
Pending(call, args) ==
    [op |-> "none", args |-> [call |-> call] @@ args, result |-> "void",
     reads |-> <<>>, writes |-> <<>>, event |-> <<>>]

InitDelays ==
    /\ storage = [k \in StorageKeys |-> Null]
    /\ clipperState = NullClipperState
    /\ recordedBadRating = Null
    /\ \/ \E d \in DateNumbers, n \in DateNumbers :
             last = Pending("badRatingTimingDelayIsOver",
                            [badRatingDate |-> d, comparisonDate |-> n])
       \/ \E b \in VersionInputs, v \in VersionInputs :
             last = Pending("badRatingVersionDelayIsOver",
                            [badRatingVersion |-> b, lastSeenVersion |-> v])
       \/ \E c \in CountInputs :
             last = Pending("clipSuccessDelayIsOver", [numClipsAsStr |-> c])

BadRatingTimingDelayIsOver ==
    /\ last.op = "none" /\ last.args.call = "badRatingTimingDelayIsOver"
    /\ last' = [last EXCEPT
                  !.op = "badRatingTimingDelayIsOver",
                  !.result = badRatingTimingDelayIsOver(last.args.badRatingDate,
                                                        last.args.comparisonDate)]
    /\ UNCHANGED <<storage, clipperState, recordedBadRating>>

BadRatingVersionDelayIsOver ==
    /\ last.op = "none" /\ last.args.call = "badRatingVersionDelayIsOver"
    /\ last' = [last EXCEPT
                  !.op = "badRatingVersionDelayIsOver",
                  !.result = badRatingVersionDelayIsOver(last.args.badRatingVersion.version,
                                                         last.args.lastSeenVersion.version)]
    /\ UNCHANGED <<storage, clipperState, recordedBadRating>>

\* lines 251 and 263: the stored count is parsed and given to the predicate
ClipSuccessDelayIsOver ==
    /\ last.op = "none" /\ last.args.call = "clipSuccessDelayIsOver"
    /\ last' = [last EXCEPT
                  !.op = "clipSuccessDelayIsOver",
                  !.result = clipSuccessDelayIsOver(parseInt(last.args.numClipsAsStr.str))]
    /\ UNCHANGED <<storage, clipperState, recordedBadRating>>

NextDelays ==
    \/ BadRatingTimingDelayIsOver
    \/ BadRatingVersionDelayIsOver
    \/ ClipSuccessDelayIsOver

SpecDelays == InitDelays /\ [][NextDelays]_vars

(***************************************************************************)
(* C8                                                                      *)
(***************************************************************************)

Abs(n) == IF n < 0 THEN -n ELSE n

\* a number is a date within the validity bound
WithinBound(x) == x # NaN /\ Abs(x.v) <= maximumJSTimeValue

C9_VersionDelay ==
    last.op = "badRatingVersionDelayIsOver" =>
        LET b == last.args.badRatingVersion
            s == last.args.lastSeenVersion
        IN  last.result =
                IF b.form = "absent" THEN TRUE
                ELSE IF b.form # "X.Y.Z" \/ s.form # "X.Y.Z" THEN FALSE
                ELSE \/ s.major > b.major
                     \/ s.major = b.major /\ s.minor > b.minor

\* only the patch is ahead
C9_Witness ==
    /\ last.op = "badRatingVersionDelayIsOver"
    /\ last.args.badRatingVersion.version = Str(VersionChars(1, 2, 0))
    /\ last.args.lastSeenVersion.version = Str(VersionChars(1, 2, 2))
    /\ last.result = FALSE

(***************************************************************************)
(* C10                                                                     *)
(***************************************************************************)

\* C10: clipSuccessDelayIsOver is false for a clip count that is absent, no
\* number or negative, and otherwise true exactly when the count is between
\* minClipSuccessForRatingsPrompt and maxClipSuccessForRatingsPrompt, both
\* limits included.
C10_ClipCountDelay ==
    last.op = "clipSuccessDelayIsOver" =>
        LET c == last.args.numClipsAsStr
        IN  last.result =
                IF c.form # "integer" \/ c.n < 0 THEN FALSE
                ELSE /\ minClipSuccessForRatingsPrompt <= c.n
                     /\ c.n <= maxClipSuccessForRatingsPrompt

\* the upper limit
C10_Witness ==
    /\ last.op = "clipSuccessDelayIsOver"
    /\ last.args.numClipsAsStr.n = maxClipSuccessForRatingsPrompt
    /\ last.args.numClipsAsStr.form = "integer"
    /\ last.result = TRUE

(***************************************************************************)
(* C11                                                                     *)
(***************************************************************************)

\* C11: once setLastBadRating has written a valid date d and nothing else
\* has written lastBadRatingDate since, every shouldShowRatingsPrompt on a
\* clipper state without a cached decision, made at a clock time less than
\* minTimeBetweenBadRatings after d, returns false, whatever the client
\* setting, the stored versions and the stored clip count are.
C11_NoPromptSoonAfterBadRating ==
    (/\ CalledWithoutCachedValue
     /\ recordedBadRating # Null
     /\ storage["lastBadRatingDate"] = recordedBadRating)
        => \A d \in -maximumJSTimeValue..maximumJSTimeValue :
              (/\ recordedBadRating = Str(ToDecimal(d))
               /\ last.args.now - d < minTimeBetweenBadRatings)
                  => last.result = FALSE

\* the bad rating was recorded at 12 for version 1.2.0; two time units later
\* the client is enabled, the flag is not set, version 1.3.0 has been seen and
\* the clip count is in the window: the timing delay alone holds the prompt back
C11_Witness ==
    /\ DelaysEvaluated
    /\ recordedBadRating = Str(ToDecimal(12))
    /\ storage["lastBadRatingDate"] = recordedBadRating
    /\ last.args.now = 12 + 2
    /\ last.event.RatingsInfo.badRatingVersionDelayIsOver
    /\ last.event.RatingsInfo.clipSuccessDelayIsOver
    /\ last.event.RatingsInfo.badRatingTimingDelayIsOver = FALSE
    /\ last.result = FALSE

====
